---------------------------- MODULE Spec2Model ----------------------------
(***************************************************************************)
(* simple-include: an include preprocessor that mirrors a source tree into *)
(* a target tree (src/src/main.rs).  The model covers the path arithmetic  *)
(* of std::path, the Expander (process_file), the Initial Sync Pass and    *)
(* the Watch Dispatcher of main.                                           *)
(*                                                                         *)
(* A path is the sequence of its std::path components: "/" is the root     *)
(* component, "." a leading current-directory component, ".." a parent     *)
(* component, anything else a name.  A file's content is a sequence of     *)
(* tokens; NL is the line terminator and BAD a byte sequence that is not   *)
(* valid UTF-8.                                                            *)
(***************************************************************************)
EXTENDS Naturals, Sequences, FiniteSets

NL  == "\n"
BAD == "<ff>"
SP  == " "
PFX == "--include"
SEP == "/"

None == <<>>

----------------------------------------------------------------------------
(* std::path                                                               *)

IsAbsolute(p) == Len(p) > 0 /\ p[1] = "/"

Front(s) == SubSeq(s, 1, Len(s) - 1)

Last(s) == s[Len(s)]

\* Path::join: an absolute right operand replaces the left one; a "." that
\* would end up inside the joined path is not a component of it.
Join(a, b) ==
    IF IsAbsolute(b) THEN b
    ELSE IF Len(a) = 0 THEN b
    ELSE IF Len(b) > 0 /\ b[1] = "." THEN a \o Tail(b)
    ELSE a \o b

\* Path::starts_with, and the success of Path::strip_prefix
StartsWith(p, base) ==
    /\ Len(base) <= Len(p)
    /\ SubSeq(p, 1, Len(base)) = base

\* the Ok value of Path::strip_prefix
StripPrefix(p, base) == SubSeq(p, Len(base) + 1, Len(p))

\* strip_prefix(base).unwrap_or(p)
StripOrSelf(p, base) == IF StartsWith(p, base) THEN StripPrefix(p, base) ELSE p

\* path.parent().unwrap_or(Path::new(""))
Parent(p) == IF Len(p) = 0 \/ p = <<"/">> THEN <<>> ELSE Front(p)

\* PathBuf::pop: nothing to pop from the empty path or from the root
Pop(p) == IF Len(p) = 0 \/ p = <<"/">> THEN p ELSE Front(p)

RECURSIVE NormalizeFrom(_, _)
NormalizeFrom(rest, result) ==
    IF rest = <<>> THEN result
    ELSE LET c == Head(rest) IN
         IF c = ".." THEN NormalizeFrom(Tail(rest), Pop(result))
         ELSE IF c = "." THEN NormalizeFrom(Tail(rest), result)
         ELSE NormalizeFrom(Tail(rest), Join(result, <<c>>))

normalize_path(path) == NormalizeFrom(path, <<>>)

are_paths_equal(path1, path2) == normalize_path(path1) = normalize_path(path2)

----------------------------------------------------------------------------
(* The file system: files maps the canonical absolute path of every        *)
(* regular file to its content, dirs is the set of the directories.  There *)
(* are no symbolic links.                                                  *)

RECURSIVE ResolveFrom(_, _, _)
ResolveFrom(rest, cur, dirs) ==
    IF rest = <<>> THEN cur
    ELSE IF cur \notin dirs THEN None
    ELSE LET c == Head(rest) IN
         IF c = "." THEN ResolveFrom(Tail(rest), cur, dirs)
         ELSE IF c = ".." THEN ResolveFrom(Tail(rest), Pop(cur), dirs)
         ELSE ResolveFrom(Tail(rest), cur \o <<c>>, dirs)

\* what the operating system makes of a path given to open, read or stat:
\* the canonical path it names, or None when a directory on the way is missing
Resolve(fsys, cwd, p) ==
    IF IsAbsolute(p) THEN ResolveFrom(Tail(p), <<"/">>, fsys.dirs)
    ELSE ResolveFrom(p, cwd, fsys.dirs)

IsFile(fsys, c) == c # None /\ c \in DOMAIN fsys.files

IsDir(fsys, c) == c # None /\ c \in fsys.dirs

Exists(fsys, c) == IsFile(fsys, c) \/ IsDir(fsys, c)

\* the canonical path an output path names once its directories are created
OutCanon(cwd, p) == normalize_path(Join(cwd, p))

Prefixes(c) == { SubSeq(c, 1, n) : n \in 1..Len(c) }

WriteFile(fsys, c, content) ==
    [fsys EXCEPT !.files =
        [q \in DOMAIN fsys.files \cup {c} |->
            IF q = c THEN content ELSE fsys.files[q]]]

RemoveFile(fsys, c) ==
    [fsys EXCEPT !.files = [q \in DOMAIN fsys.files \ {c} |-> fsys.files[q]]]

\* fs::create_dir_all: fails when a component on the way is a regular file
CanCreateDirs(fsys, d) == \A q \in Prefixes(d) : q \notin DOMAIN fsys.files

CreateDirAll(fsys, d) == [fsys EXCEPT !.dirs = fsys.dirs \cup Prefixes(d)]

----------------------------------------------------------------------------
(* Text                                                                    *)

\* BufRead::lines: the text between line terminators; no line after the last
\* terminator when nothing follows it
RECURSIVE SplitLines(_, _)
SplitLines(rest, cur) ==
    IF rest = <<>> THEN (IF cur = <<>> THEN <<>> ELSE <<cur>>)
    ELSE IF Head(rest) = NL THEN <<cur>> \o SplitLines(Tail(rest), <<>>)
    ELSE SplitLines(Tail(rest), Append(cur, Head(rest)))

Lines(content) == SplitLines(content, <<>>)

\* a line, or a file, that does not decode as UTF-8
Undecodable(text) == \E i \in 1..Len(text) : text[i] = BAD

\* line.starts_with(include_string)
IsDirective(line) == Len(line) > 0 /\ line[1] = PFX

\* str::trim_start_matches(include_string): every leading repetition goes
RECURSIVE TrimStartMatches(_)
TrimStartMatches(line) ==
    IF Len(line) > 0 /\ line[1] = PFX THEN TrimStartMatches(Tail(line)) ELSE line

RECURSIVE TrimStart(_)
TrimStart(text) ==
    IF Len(text) > 0 /\ text[1] = SP THEN TrimStart(Tail(text)) ELSE text

RECURSIVE TrimEnd(_)
TrimEnd(text) ==
    IF Len(text) > 0 /\ Last(text) = SP THEN TrimEnd(Front(text)) ELSE text

\* str::trim
Trim(text) == TrimEnd(TrimStart(text))

\* one more component of a path being read from text: empty components and
\* "." components other than a leading one are not components
Emit(out, cur) ==
    IF cur = "" THEN out
    ELSE IF cur = "." /\ out # <<>> THEN out
    ELSE Append(out, cur)

RECURSIVE Components(_, _, _)
Components(rest, cur, out) ==
    IF rest = <<>> THEN Emit(out, cur)
    ELSE IF Head(rest) = SEP THEN Components(Tail(rest), "", Emit(out, cur))
    ELSE Components(Tail(rest), cur \o Head(rest), out)

\* Path::new(text): the components of the path a text spells
PathOf(text) ==
    IF Len(text) > 0 /\ text[1] = SEP THEN Components(Tail(text), "", <<"/">>)
    ELSE Components(text, "", <<>>)

----------------------------------------------------------------------------
(* The Expander                                                            *)

\* fs::read_to_string
ReadToString(fsys, cwd, p) ==
    LET c == Resolve(fsys, cwd, p) IN
    IF ~Exists(fsys, c) THEN [ok |-> FALSE, kind |-> "NotFound", content |-> <<>>]
    ELSE IF IsDir(fsys, c) THEN [ok |-> FALSE, kind |-> "Other", content |-> <<>>]
    ELSE IF Undecodable(fsys.files[c])
         THEN [ok |-> FALSE, kind |-> "InvalidData", content |-> <<>>]
    ELSE [ok |-> TRUE, kind |-> "", content |-> fsys.files[c]]

\* the include path a directive line names, before normalisation
IncludePath(parent_dir, line) == Join(parent_dir, PathOf(Trim(TrimStartMatches(line))))

\* ExpandLines gone wrong: the included file's own directive lines are
\* expanded too
RECURSIVE ExpandLinesNested(_, _, _, _, _, _)
ExpandLinesNested(fsys, cwd, parent_dir, ls, new_content, paths) ==
    IF ls = <<>>
    THEN [undecodable |-> FALSE, new_content |-> new_content, paths |-> paths]
    ELSE LET line == Head(ls) IN
         IF Undecodable(line)
         THEN [undecodable |-> TRUE, new_content |-> <<>>, paths |-> <<>>]
         ELSE IF IsDirective(line)
         THEN LET include_path == IncludePath(parent_dir, line)
                  include_content == ReadToString(fsys, cwd, include_path)
                  emitted == IF include_content.ok
                             THEN ExpandLinesNested(fsys, cwd, Parent(include_path),
                                      Lines(include_content.content), <<>>, <<>>).new_content
                             ELSE line
              IN ExpandLinesNested(fsys, cwd, parent_dir, Tail(ls),
                                   new_content \o emitted \o <<NL>>,
                                   Append(paths, normalize_path(include_path)))
         ELSE ExpandLinesNested(fsys, cwd, parent_dir, Tail(ls),
                                new_content \o line \o <<NL>>, paths)

\* ExpandLines gone wrong: a directive whose target cannot be read is dropped
\* from the output and from the include list
RECURSIVE ExpandLinesDropFailed(_, _, _, _, _, _)
ExpandLinesDropFailed(fsys, cwd, parent_dir, ls, new_content, paths) ==
    IF ls = <<>>
    THEN [undecodable |-> FALSE, new_content |-> new_content, paths |-> paths]
    ELSE LET line == Head(ls) IN
         IF Undecodable(line)
         THEN [undecodable |-> TRUE, new_content |-> <<>>, paths |-> <<>>]
         ELSE IF IsDirective(line)
         THEN LET include_path == IncludePath(parent_dir, line)
                  include_content == ReadToString(fsys, cwd, include_path)
              IN IF include_content.ok
                 THEN ExpandLinesDropFailed(fsys, cwd, parent_dir, Tail(ls),
                          new_content \o include_content.content \o <<NL>>,
                          Append(paths, normalize_path(include_path)))
                 ELSE ExpandLinesDropFailed(fsys, cwd, parent_dir, Tail(ls),
                          new_content \o <<NL>>, paths)
         ELSE ExpandLinesDropFailed(fsys, cwd, parent_dir, Tail(ls),
                                    new_content \o line \o <<NL>>, paths)

\* ExpandLines gone wrong: no line terminator is added to emitted text that
\* already ends with one
RECURSIVE ExpandLinesTidy(_, _, _, _, _, _)
ExpandLinesTidy(fsys, cwd, parent_dir, ls, new_content, paths) ==
    IF ls = <<>>
    THEN [undecodable |-> FALSE, new_content |-> new_content, paths |-> paths]
    ELSE LET line == Head(ls) IN
         IF Undecodable(line)
         THEN [undecodable |-> TRUE, new_content |-> <<>>, paths |-> <<>>]
         ELSE IF IsDirective(line)
         THEN LET include_path == IncludePath(parent_dir, line)
                  include_content == ReadToString(fsys, cwd, include_path)
                  emitted == IF include_content.ok THEN include_content.content
                             ELSE line
                  ended == Len(emitted) > 0 /\ Last(emitted) = NL
              IN ExpandLinesTidy(fsys, cwd, parent_dir, Tail(ls),
                                 new_content \o emitted \o
                                     (IF ended THEN <<>> ELSE <<NL>>),
                                 Append(paths, normalize_path(include_path)))
         ELSE ExpandLinesTidy(fsys, cwd, parent_dir, Tail(ls),
                              new_content \o line \o <<NL>>, paths)

\* the line loop of process_file: the text and the include list accumulated
\* when every line decodes, or the fact that one did not
RECURSIVE ExpandLines(_, _, _, _, _, _)
ExpandLines(fsys, cwd, parent_dir, ls, new_content, paths) ==
    IF ls = <<>>
    THEN [undecodable |-> FALSE, new_content |-> new_content, paths |-> paths]
    ELSE LET line == Head(ls) IN
         IF Undecodable(line)
         THEN [undecodable |-> TRUE, new_content |-> <<>>, paths |-> <<>>]
         ELSE IF IsDirective(line)
         THEN LET include_path == IncludePath(parent_dir, line)
                  include_content == ReadToString(fsys, cwd, include_path)
                  emitted == IF include_content.ok THEN include_content.content
                             ELSE line
              IN ExpandLines(fsys, cwd, parent_dir, Tail(ls),
                             new_content \o emitted \o <<NL>>,
                             Append(paths, normalize_path(include_path)))
         ELSE ExpandLines(fsys, cwd, parent_dir, Tail(ls),
                          new_content \o line \o <<NL>>, paths)

Failure(fsys, kind) ==
    [ok |-> FALSE, kind |-> kind, includes |-> <<>>, fsys |-> fsys, wrote |-> {}]

Success(fsys, includes, wrote) ==
    [ok |-> TRUE, kind |-> "", includes |-> includes, fsys |-> fsys, wrote |-> wrote]

\* std::fs::copy(path, out_path): the directory of out_path must exist; a
\* copy of a file onto itself may leave it as it is or truncated
CopyFile(fsys, cwd, c, out_path) ==
    LET oc == Resolve(fsys, cwd, out_path) IN
    IF oc = None \/ Len(oc) < 2 \/ Pop(oc) \notin fsys.dirs
    THEN {Failure(fsys, "NotFound")}
    ELSE IF oc \in fsys.dirs THEN {Failure(fsys, "Other")}
    ELSE IF oc = c
    THEN {Success(fsys, <<>>, {oc}), Success(WriteFile(fsys, oc, <<>>), <<>>, {oc})}
    ELSE {Success(WriteFile(fsys, oc, fsys.files[c]), <<>>, {oc})}

\* WriteOutput gone wrong: the output file is opened for appending
WriteOutputAppending(fsys, cwd, out_path, new_content, paths) ==
    LET oc == OutCanon(cwd, out_path)
        old == IF oc \in DOMAIN fsys.files THEN fsys.files[oc] ELSE <<>>
    IN
    IF ~CanCreateDirs(fsys, Parent(oc)) THEN {Failure(fsys, "Other")}
    ELSE IF oc \in fsys.dirs \/ Len(oc) < 2
    THEN {Failure(CreateDirAll(fsys, Parent(oc)), "Other")}
    ELSE {Success(WriteFile(CreateDirAll(fsys, Parent(oc)), oc, old \o new_content),
                  paths, {oc})}

\* the end of process_file: create_dir_all of the parent, File::create, write_all
WriteOutput(fsys, cwd, out_path, new_content, paths) ==
    LET oc == OutCanon(cwd, out_path) IN
    IF ~CanCreateDirs(fsys, Parent(oc)) THEN {Failure(fsys, "Other")}
    ELSE IF oc \in fsys.dirs \/ Len(oc) < 2
    THEN {Failure(CreateDirAll(fsys, Parent(oc)), "Other")}
    ELSE {Success(WriteFile(CreateDirAll(fsys, Parent(oc)), oc, new_content),
                  paths, {oc})}

\* process_file gone wrong: the output file is created before the input is
\* opened
process_file_creating(fsys, cwd, path, out_path, verbose) ==
    LET c == Resolve(fsys, cwd, path)
        created == WriteOutput(fsys, cwd, out_path, <<>>, <<>>)
    IN
    IF ~Exists(fsys, c)
    THEN { Failure(w.fsys, "NotFound") : w \in created }
    ELSE IF IsDir(fsys, c) THEN {Failure(fsys, "Other")}
    ELSE LET r == ExpandLines(fsys, cwd, Parent(path), Lines(fsys.files[c]),
                              <<>>, <<>>)
         IN IF r.undecodable
            THEN IF verbose THEN CopyFile(fsys, cwd, c, out_path)
                 ELSE {Failure(fsys, "InvalidData")}
            ELSE WriteOutput(fsys, cwd, out_path, r.new_content, r.paths)

\* process_file(path, out_path, include_string, verbose): the set of its
\* possible outcomes, each with the result, the file system it leaves and
\* the paths it wrote
process_file(fsys, cwd, path, out_path, verbose) ==
    LET c == Resolve(fsys, cwd, path) IN
    IF ~Exists(fsys, c) THEN {Failure(fsys, "NotFound")}
    ELSE IF IsDir(fsys, c) THEN {Failure(fsys, "Other")}
    ELSE LET r == ExpandLines(fsys, cwd, Parent(path), Lines(fsys.files[c]),
                              <<>>, <<>>)
         IN IF r.undecodable
            THEN IF verbose THEN CopyFile(fsys, cwd, c, out_path)
                 ELSE {Failure(fsys, "InvalidData")}
            ELSE WriteOutput(fsys, cwd, out_path, r.new_content, r.paths)

----------------------------------------------------------------------------
(* The command lines and the trees the program is run on                   *)

\* the number of runs of the program on one tree
MaxRuns == 2
\* the number of notifications the source delivers in one watch session
MaxEvents == 2
\* the number of notifications waiting in the channel
MaxQueue == 1
\* the number of edits the user makes to the source tree while it is watched
MaxEdits == 1

SrcRoot == <<"/", "w", "src">>

\* working directory, --src and --target
Configs ==
    { [cwd |-> <<"/", "w">>, src |-> <<"/", "w", "src">>, target |-> <<"/", "w", "out">>],
      [cwd |-> <<"/", "w", "src">>, src |-> <<".">>, target |-> <<"target">>],
      [cwd |-> <<"/", "w">>, src |-> <<"src">>, target |-> <<"out">>],
      [cwd |-> <<"/", "w">>, src |-> <<"/", "w", "x", "..", "src">>,
       target |-> <<"/", "w", "out">>],
      [cwd |-> <<"/", "w", "src">>, src |-> <<"/", "w", "src">>, target |-> <<"target">>] }

Greeting == <<"Hi", NL>>
Howdy    == <<"Howdy", NL>>
Main     == <<PFX, SP, "g", NL, "Hello", NL>>
Top      == <<PFX, SP, "m", NL, "Top">>
Binary   == <<"II", NL, BAD, NL>>
\* a file of no bytes
Empty    == <<>>
\* directives whose targets are missing, undecodable and outside the source root
Notes    == <<PFX, SP, "nofile", NL, PFX, SP, "sub", SEP, "b", NL,
              PFX, SP, SEP, "etc", SEP, "motd", NL>>
\* a directive whose target is an output of the program
Report   == <<PFX, SP, "..", SEP, "out", SEP, "g", NL>>
\* a directive line that is indented, and one with the prefix twice
Indented == <<SP, PFX, SP, "g", NL, PFX, PFX, SP, "g", NL>>

File(rel, content) == [rel |-> rel, content |-> content]

\* source trees, as sets of files relative to the source root
Trees ==
    { { File(<<"g">>, Greeting), File(<<"m">>, Main), File(<<"t">>, Top) },
      { File(<<"g">>, Greeting), File(<<"m">>, Main), File(<<"sub", "b">>, Binary),
        File(<<"n">>, Notes) },
      { File(<<"g">>, Empty), File(<<"b">>, Binary), File(<<"r">>, Report),
        File(<<"i">>, Indented) } }

TreeFiles(tree) ==
    [c \in { SrcRoot \o f.rel : f \in tree } |->
        (CHOOSE f \in tree : SrcRoot \o f.rel = c).content]

TreeDirs(tree) ==
    UNION { Prefixes(Parent(SrcRoot \o f.rel)) : f \in tree } \cup {<<"/", "w", "x">>}

\* Main with one more directive
MainMore == Main \o <<PFX, SP, "nofile", NL>>

\* the contents the user gives a source file while the tree is watched
Edits == { [rel |-> <<"g">>, content |-> Howdy],
           [rel |-> <<"m">>, content |-> Binary],
           [rel |-> <<"m">>, content |-> MainMore] }

----------------------------------------------------------------------------
VARIABLES
    cfg,             \* the command line: working directory, --src, --target
    verbose,         \* args.verbose
    watch,           \* args.watch
    fsys,            \* the file system
    phase,           \* where main is: "start", "sync", "watch", or how it ended
    abs_src,         \* fs::canonicalize(args.src)
    abs_target,      \* fs::canonicalize(args.target)
    todo,            \* the paths of list_of_paths not yet processed
    included_files,  \* the Dependency Graph, as pairs <<included, includer>>
    queue,           \* the channel from the notification source
    last,            \* what the last step did
    runs,            \* runs of the program started so far
    first_run,       \* the files as the first run left them
    events,          \* notifications delivered so far
    edits,           \* edits made so far
    expanded         \* <<F, G>>: F was expanded with a directive naming G

vars == <<cfg, verbose, watch, fsys, phase, abs_src, abs_target, todo,
          included_files, queue, last, runs, first_run, events, edits, expanded>>

Idle(op) == [op |-> op, ev |-> [kind |-> "none", paths |-> <<>>],
             calls |-> <<>>, touched |-> {}]

Init ==
    /\ cfg \in Configs
    /\ verbose \in BOOLEAN
    /\ watch \in BOOLEAN
    /\ \E tree \in Trees, target_exists \in BOOLEAN :
          fsys = [files |-> TreeFiles(tree),
                  dirs |-> TreeDirs(tree) \cup
                           (IF target_exists
                            THEN Prefixes(OutCanon(cfg.cwd, cfg.target)) ELSE {})]
    /\ phase = "start"
    /\ abs_src = None
    /\ abs_target = None
    /\ todo = {}
    /\ included_files = {}
    /\ queue = <<>>
    /\ last = Idle("init")
    /\ runs = 1
    /\ first_run = [taken |-> FALSE, files |-> fsys.files]
    /\ events = 0
    /\ edits = 0
    /\ expanded = {}

----------------------------------------------------------------------------
(* main: startup and the Initial Sync Pass                                 *)

\* fs::canonicalize: the path must exist
Canonicalize(fs, cwd, p) ==
    LET c == Resolve(fs, cwd, p) IN IF Exists(fs, c) THEN c ELSE None

\* list_of_paths(dir, target): every regular file WalkDir finds under dir,
\* spelled from dir as given, but for the entries (and what lies below them)
\* that are_paths_equal finds equal to target
list_of_paths(fs, cwd, dir, target) ==
    LET root == Resolve(fs, cwd, dir)
        Filtered(rel) ==
            \E k \in 0..Len(rel) : are_paths_equal(dir \o SubSeq(rel, 1, k), target)
    IN { dir \o StripPrefix(c, root) :
            c \in { f \in DOMAIN fs.files :
                      StartsWith(f, root) /\ ~Filtered(StripPrefix(f, root)) } }

Call(changed, path, out_path, r) ==
    [changed |-> changed, path |-> path, out_path |-> out_path, ok |-> r.ok,
     kind |-> r.kind, includes |-> r.includes]

\* main, lines 104-112: canonicalize both roots, then enumerate the sources
Startup ==
    /\ phase = "start"
    /\ LET s == Canonicalize(fsys, cfg.cwd, cfg.src)
           t == Canonicalize(fsys, cfg.cwd, cfg.target)
       IN IF s = None \/ t = None
          THEN /\ phase' = "failed"
               /\ UNCHANGED <<abs_src, abs_target, todo>>
          ELSE /\ phase' = "sync"
               /\ abs_src' = s
               /\ abs_target' = t
               /\ todo' = list_of_paths(fsys, cfg.cwd, cfg.src, cfg.target)
    /\ included_files' = {}
    /\ last' = Idle("startup")
    /\ UNCHANGED <<cfg, verbose, watch, fsys, queue, runs, first_run, events, edits,
                   expanded>>

\* the files a sequence of Expander calls expanded, each with the files its
\* directives named
Expanded(calls) ==
    UNION { { <<OutCanon(cfg.cwd, calls[k].path),
                OutCanon(cfg.cwd, calls[k].includes[i])>> :
              i \in 1..Len(calls[k].includes) } :
            k \in { j \in 1..Len(calls) : calls[j].ok } }

\* the edges the Initial Sync Pass records for one expanded file
SyncEdges(file, includes) ==
    { <<StripOrSelf(includes[i], abs_src), StripOrSelf(file, abs_src)>> :
        i \in 1..Len(includes) }

\* one iteration of the loop over list_of_paths (main, lines 112-144)
SyncFile ==
    /\ phase = "sync"
    /\ \E file \in todo :
          LET out_path == Join(cfg.target, StripPrefix(file, cfg.src)) IN
          \E r \in process_file(fsys, cfg.cwd, file, out_path, verbose) :
             /\ fsys' = r.fsys
             /\ included_files' =
                   included_files \cup
                   (IF r.ok THEN SyncEdges(file, r.includes) ELSE {})
             /\ todo' = todo \ {file}
             /\ last' = [Idle("sync") EXCEPT
                            !.calls = <<Call(file, file, out_path, r)>>,
                            !.touched = r.wrote]
             /\ expanded' = expanded \cup
                             Expanded(<<Call(file, file, out_path, r)>>)
    /\ UNCHANGED <<cfg, verbose, watch, phase, abs_src, abs_target, queue, runs,
                   first_run, events, edits>>

\* the loop is over: return unless --watch (main, lines 145-154)
SyncEnd ==
    /\ phase = "sync"
    /\ todo = {}
    /\ phase' = IF watch THEN "watch" ELSE "done"
    /\ first_run' = IF runs = 1 THEN [taken |-> TRUE, files |-> fsys.files]
                    ELSE first_run
    /\ last' = Idle("syncend")
    /\ UNCHANGED <<cfg, verbose, watch, fsys, abs_src, abs_target, todo,
                   included_files, queue, runs, events, edits, expanded>>

\* the user runs the program again with the same command line
Rerun ==
    /\ phase = "done"
    /\ runs < MaxRuns
    /\ runs' = runs + 1
    /\ phase' = "start"
    /\ abs_src' = None
    /\ abs_target' = None
    /\ included_files' = {}
    /\ last' = Idle("rerun")
    /\ expanded' = {}
    /\ UNCHANGED <<cfg, verbose, watch, fsys, todo, queue, first_run, events, edits>>

----------------------------------------------------------------------------
(* main: the Watch Dispatcher.  A handler works on a record of the file    *)
(* system, the Dependency Graph, the Expander calls made and the paths     *)
(* written or deleted so far, and whether the process is still alive; it   *)
(* yields the set of the records it can end with.                          *)

Panicked(st) == [st EXCEPT !.alive = FALSE]

\* the state after one Expander call made for the changed path
AfterCall(st, changed, path, out_path, r) ==
    [st EXCEPT !.fsys = r.fsys,
               !.calls = Append(@, Call(changed, path, out_path, r)),
               !.touched = @ \cup r.wrote]

\* WatchEdges gone wrong: the edge is keyed by the include path as returned,
\* not by its path relative to abs_src
RECURSIVE WatchEdgesAbsolute(_, _, _, _)
WatchEdgesAbsolute(st, includes, relative_file, vb) ==
    IF includes = <<>> THEN st
    ELSE LET included == Head(includes) IN
         IF ~StartsWith(included, abs_src) /\ vb
         THEN WatchEdgesAbsolute(st, Tail(includes), relative_file, vb)
         ELSE IF ~StartsWith(included, abs_src)
         THEN Panicked(st)
         ELSE WatchEdgesAbsolute(
                 [st EXCEPT !.graph = @ \cup {<<included, relative_file>>}],
                 Tail(includes), relative_file, vb)

\* WatchEdges gone wrong: the entry of the included file is overwritten with
\* the one dependent instead of being added to
RECURSIVE WatchEdgesReplacing(_, _, _, _)
WatchEdgesReplacing(st, includes, relative_file, vb) ==
    IF includes = <<>> THEN st
    ELSE LET included == Head(includes) IN
         IF ~StartsWith(included, abs_src) /\ vb
         THEN WatchEdgesReplacing(st, Tail(includes), relative_file, vb)
         ELSE IF ~StartsWith(included, abs_src)
         THEN Panicked(st)
         ELSE WatchEdgesReplacing(
                 [st EXCEPT !.graph =
                     { d \in @ : d[1] # StripPrefix(included, abs_src) }
                     \cup {<<StripPrefix(included, abs_src), relative_file>>}],
                 Tail(includes), relative_file, vb)

\* main, lines 206-216: an edge for every returned include under abs_src; an
\* include elsewhere is reported when verbose, and unwrapped otherwise
RECURSIVE WatchEdges(_, _, _, _)
WatchEdges(st, includes, relative_file, vb) ==
    IF includes = <<>> THEN st
    ELSE LET included == Head(includes) IN
         IF ~StartsWith(included, abs_src) /\ vb
         THEN WatchEdges(st, Tail(includes), relative_file, vb)
         ELSE IF ~StartsWith(included, abs_src)
         THEN Panicked(st)
         ELSE WatchEdges(
                 [st EXCEPT !.graph =
                     @ \cup {<<StripPrefix(included, abs_src), relative_file>>}],
                 Tail(includes), relative_file, vb)

\* Dependents gone wrong: the includers of the includers are dependents too
DependentsTransitive(graph, changed_file) ==
    LET direct == { e[2] : e \in { d \in graph : d[1] = changed_file } }
    IN direct \cup { e[2] : e \in { d \in graph : d[1] \in direct } }

\* included_files.get(changed_file)
Dependents(graph, changed_file) == { e[2] : e \in { d \in graph : d[1] = changed_file } }

\* ReexpandDependents gone wrong: the dependents of a re-expanded dependent
\* are re-expanded in their turn (up to four calls for one changed path)
RECURSIVE ReexpandDependentsChasing(_, _, _, _)
ReexpandDependentsChasing(st, changed, deps, vb) ==
    IF deps = {} THEN {st}
    ELSE UNION { LET path == Join(cfg.src, included_file)
                     out_path == Join(cfg.target, included_file)
                     further == IF Len(st.calls) < 3
                                THEN Dependents(st.graph, included_file) ELSE {}
                 IN UNION { ReexpandDependentsChasing(
                                AfterCall(st, changed, path, out_path, r),
                                changed, (deps \ {included_file}) \cup further, vb) :
                            r \in process_file(st.fsys, cfg.cwd, path, out_path, vb) } :
                 included_file \in deps }

\* main, lines 226-257: the Expander on every recorded dependent of the
\* changed file, in the order the HashSet yields them; results are dropped
RECURSIVE ReexpandDependents(_, _, _, _)
ReexpandDependents(st, changed, deps, vb) ==
    IF deps = {} THEN {st}
    ELSE UNION { LET path == Join(cfg.src, included_file)
                     out_path == Join(cfg.target, included_file)
                 IN UNION { ReexpandDependents(
                                AfterCall(st, changed, path, out_path, r),
                                changed, deps \ {included_file}, vb) :
                            r \in process_file(st.fsys, cfg.cwd, path, out_path, vb) } :
                 included_file \in deps }

\* main, lines 204-224: the Expander on the changed file and its edges
ExpandChanged(st, file, vb) ==
    LET relative_file == StripPrefix(file, abs_src)
        target_file == Join(cfg.target, relative_file)
    IN { LET st1 == AfterCall(st, file, file, target_file, r)
         IN IF r.ok THEN WatchEdges(st1, r.includes, relative_file, vb) ELSE st1 :
         r \in process_file(st.fsys, cfg.cwd, file, target_file, vb) }

\* HandleChanged gone wrong: no check against the target root
HandleChangedUnguarded(st, event_path, vb) ==
    LET file == normalize_path(event_path)
        own == IF ~StartsWith(file, abs_src) /\ vb THEN {st}
               ELSE IF ~StartsWith(file, abs_src) THEN {Panicked(st)}
               ELSE ExpandChanged(st, file, vb)
        changed_file == StripOrSelf(file, abs_src)
    IN UNION { IF ~st1.alive THEN {st1}
               ELSE ReexpandDependents(st1, file,
                        Dependents(st1.graph, changed_file), vb) :
               st1 \in own }

\* main, lines 189-260: one path of a create or modify event
HandleChanged(st, event_path, vb) ==
    LET path == normalize_path(event_path) IN
    IF StartsWith(path, abs_target) THEN {st}
    ELSE LET file == path
             own == IF ~StartsWith(file, abs_src) /\ vb THEN {st}
                    ELSE IF ~StartsWith(file, abs_src) THEN {Panicked(st)}
                    ELSE ExpandChanged(st, file, vb)
             changed_file == StripOrSelf(file, abs_src)
         IN UNION { IF ~st1.alive THEN {st1}
                    ELSE ReexpandDependents(st1, file,
                             Dependents(st1.graph, changed_file), vb) :
                    st1 \in own }

\* main, lines 164-186: one path of a remove event
HandleRemoved(st, event_path, vb) ==
    LET path == normalize_path(event_path) IN
    IF ~StartsWith(path, abs_src) THEN {Panicked(st)}
    ELSE LET target_file == Join(cfg.target, StripPrefix(path, abs_src))
             c == Resolve(st.fsys, cfg.cwd, target_file)
         IN IF IsFile(st.fsys, c) /\ StartsWith(target_file, cfg.target)
            THEN {[st EXCEPT !.fsys = RemoveFile(@, c), !.touched = @ \cup {c}]}
            ELSE {st}

\* event.paths.iter().for_each(..): a panic ends the process on the spot
RECURSIVE HandlePaths(_, _, _, _)
HandlePaths(st, kind, paths, vb) ==
    IF paths = <<>> \/ ~st.alive THEN {st}
    ELSE UNION { HandlePaths(st1, kind, Tail(paths), vb) :
                 st1 \in IF kind = "remove" THEN HandleRemoved(st, Head(paths), vb)
                         ELSE HandleChanged(st, Head(paths), vb) }

\* the body of the loop over the channel (main, lines 157-264)
HandleEvent(st, ev, vb) ==
    IF ev.kind = "error" \/ ev.kind = "access" THEN {st}
    ELSE HandlePaths(st, ev.kind, ev.paths, vb)

\* the record a handler starts from
Before == [fsys |-> fsys, graph |-> included_files, calls |-> <<>>,
           touched |-> {}, alive |-> TRUE]

\* the root the notification source reports paths under: --src as given,
\* made absolute with the working directory
WatchRoot == IF IsAbsolute(cfg.src) THEN cfg.src ELSE Join(cfg.cwd, cfg.src)

\* a path that is not under the canonical source root
Outside == <<"/", "w", "link", "g">>

\* the target root relative to the source root, when it lies inside it
TargetInSource ==
    LET t == OutCanon(cfg.cwd, cfg.target)
    IN IF StartsWith(t, SrcRoot) THEN {StripPrefix(t, SrcRoot) \o <<"m">>} ELSE {}

\* the files events are about: g, the files m, n and s of the trees that
\* have them, a file that never existed, and an output
WatchedRels ==
    {<<"g">>, <<"nofile">>}
    \cup { rel \in {<<"m">>, <<"n">>, <<"s">>} : SrcRoot \o rel \in DOMAIN fsys.files }
    \cup TargetInSource

\* the path lists of the create/modify events
ChangedPaths ==
    { <<WatchRoot \o rel>> : rel \in WatchedRels } \cup
    { <<Outside, WatchRoot \o <<"g">>>> }

\* the path lists of the remove events
RemovedPaths ==
    { <<WatchRoot \o <<"g">>, WatchRoot \o <<"m">>>>,
      <<Outside, WatchRoot \o <<"m">>>> }

Events ==
    { [kind |-> "modify", paths |-> ps] : ps \in ChangedPaths } \cup
    { [kind |-> "remove", paths |-> ps] : ps \in RemovedPaths } \cup
    { [kind |-> "access", paths |-> <<WatchRoot \o <<"g">>>>],
      [kind |-> "error", paths |-> <<>>] }

\* the notification source sends an event
Notify ==
    /\ phase = "watch"
    /\ events < MaxEvents
    /\ Len(queue) < MaxQueue
    /\ \E ev \in Events : queue' = Append(queue, ev)
    /\ events' = events + 1
    /\ last' = Idle("notify")
    /\ UNCHANGED <<cfg, verbose, watch, fsys, phase, abs_src, abs_target, todo,
                   included_files, runs, first_run, edits, expanded>>

\* the dispatcher takes the next event off the channel and handles it
Dispatch ==
    /\ phase = "watch"
    /\ queue # <<>>
    /\ \E st \in HandleEvent(Before, Head(queue), verbose) :
          /\ fsys' = st.fsys
          /\ included_files' = st.graph
          /\ phase' = IF st.alive THEN "watch" ELSE "panicked"
          /\ last' = [op |-> "dispatch", ev |-> Head(queue), calls |-> st.calls,
                      touched |-> st.touched]
          /\ expanded' = expanded \cup Expanded(st.calls)
    /\ queue' = Tail(queue)
    /\ UNCHANGED <<cfg, verbose, watch, abs_src, abs_target, todo, runs,
                   first_run, events, edits>>

\* the user rewrites a source file while the tree is watched
Edit ==
    /\ phase = "watch"
    /\ edits < MaxEdits
    /\ \E e \in Edits :
          /\ SrcRoot \o e.rel \in DOMAIN fsys.files
          /\ fsys' = WriteFile(fsys, SrcRoot \o e.rel, e.content)
    /\ edits' = edits + 1
    /\ last' = Idle("edit")
    /\ UNCHANGED <<cfg, verbose, watch, phase, abs_src, abs_target, todo,
                   included_files, queue, runs, first_run, events, expanded>>

\* the files the user deletes while the tree is watched
Deletions == { <<"g">> }

\* the user deletes a source file while the tree is watched
Delete ==
    /\ phase = "watch"
    /\ edits < MaxEdits
    /\ \E rel \in Deletions :
          /\ SrcRoot \o rel \in DOMAIN fsys.files
          /\ fsys' = RemoveFile(fsys, SrcRoot \o rel)
    /\ edits' = edits + 1
    /\ last' = Idle("delete")
    /\ UNCHANGED <<cfg, verbose, watch, phase, abs_src, abs_target, todo,
                   included_files, queue, runs, first_run, events, expanded>>

Next ==
    \/ Startup
    \/ SyncFile
    \/ SyncEnd
    \/ Rerun
    \/ Notify
    \/ Dispatch
    \/ Edit
    \/ Delete

Spec == Init /\ [][Next]_vars

----------------------------------------------------------------------------
(* Vocabulary of the properties                                            *)

\* sub occurs in text as a run of consecutive tokens
Contains(text, sub) ==
    \E k \in 0..(Len(text) - Len(sub)) : SubSeq(text, k + 1, k + Len(sub)) = sub

RECURSIVE Flatten(_)
Flatten(texts) == IF texts = <<>> THEN <<>> ELSE Head(texts) \o Flatten(Tail(texts))

\* a regular file under the source root that is not under the target root
IsSource(fs, c) ==
    /\ IsFile(fs, c)
    /\ StartsWith(c, abs_src)
    /\ ~StartsWith(c, abs_target)

\* the path under the target root that mirrors a source file
Mirror(c) == abs_target \o StripPrefix(c, abs_src)

\* the file a directive line of the file c names
DirectiveTarget(c, line) == normalize_path(IncludePath(Parent(c), line))

\* the directive lines of the file c
DirectiveLines(fs, c) ==
    { i \in 1..Len(Lines(fs.files[c])) : IsDirective(Lines(fs.files[c])[i]) }

\* the file f holds a directive line that names the file g
Includes(fs, f, g) ==
    \E i \in DirectiveLines(fs, f) : DirectiveTarget(f, Lines(fs.files[f])[i]) = g

\* the last step was the dispatcher handling an event of this kind, and the
\* process survived it
Handled(kind) == last.op = "dispatch" /\ last.ev.kind = kind /\ phase = "watch"

\* the canonical path of the input of an Expander call
Input(call) == OutCanon(cfg.cwd, call.path)

\* the canonical path of the output of an Expander call
Output(call) == OutCanon(cfg.cwd, call.out_path)

----------------------------------------------------------------------------
(* C1  Watch propagation: once a source file F was expanded with a         *)
(* directive naming the source file G, handling a create/modify event for  *)
(* G runs the Expander on F again, and F's mirrored output then holds G's  *)
(* current content.                                                        *)
C1_WatchPropagation ==
    Handled("modify") =>
        \A i \in 1..Len(last.ev.paths) : \A e \in expanded :
            LET g == normalize_path(last.ev.paths[i])
                f == e[1]
            IN ( /\ e[2] = g
                 /\ f # g
                 /\ IsSource(fsys, g) /\ ~Undecodable(fsys.files[g])
                 /\ IsSource(fsys, f) /\ ~Undecodable(fsys.files[f])
                 /\ Includes(fsys, f, g) )
               => /\ \E k \in 1..Len(last.calls) :
                        Input(last.calls[k]) = f /\ last.calls[k].ok
                  /\ IsFile(fsys, Mirror(f))
                  /\ Contains(fsys.files[Mirror(f)], fsys.files[g])

----------------------------------------------------------------------------
\* the last step made exactly one Expander call, on a file that decodes as
\* text, and wrote neither that file nor a file its directives name
TextCall(call) ==
    /\ last.calls = <<call>>
    /\ IsFile(fsys, Input(call))
    /\ ~Undecodable(fsys.files[Input(call)])
    /\ Output(call) # Input(call)
    /\ \A i \in DirectiveLines(fsys, Input(call)) :
          Resolve(fsys, cfg.cwd,
                  IncludePath(Parent(call.path), Lines(fsys.files[Input(call)])[i]))
              # Output(call)

\* what a directive line of the call's input names, as the Expander reads it
Target(call, line) == ReadToString(fsys, cfg.cwd, IncludePath(Parent(call.path), line))

\* the text one line of the input must become
Substituted(call, line) ==
    IF IsDirective(line) /\ Target(call, line).ok THEN Target(call, line).content
    ELSE line

\* the output of a text expansion: every line substituted at one level only
\* and terminated, in order
ExpectedOutput(call) ==
    LET ls == Lines(fsys.files[Input(call)])
    IN Flatten([i \in 1..Len(ls) |-> Substituted(call, ls[i]) \o <<NL>>])

(* C2  Single-level substitution: a text expansion replaces each directive *)
(* line whose target is readable as text by the target's content verbatim  *)
(* (the target's own directive lines stay as they are) and copies every    *)
(* other line unchanged and in order.                                      *)
C2_SingleLevel ==
    \A call \in { last.calls[k] : k \in 1..Len(last.calls) } :
        (TextCall(call) /\ call.ok)
        => /\ IsFile(fsys, Output(call))
           /\ fsys.files[Output(call)] = ExpectedOutput(call)

\* A includes B, B includes C, and A's output holds B's directive line and
\* not C's content
C2_Witness ==
    \E call \in { last.calls[k] : k \in 1..Len(last.calls) } :
        /\ TextCall(call) /\ call.ok
        /\ \E i \in DirectiveLines(fsys, Input(call)) :
              LET line == Lines(fsys.files[Input(call)])[i]
                  b == Resolve(fsys, cfg.cwd, IncludePath(Parent(call.path), line))
              IN /\ Target(call, line).ok
                 /\ \E j \in DirectiveLines(fsys, b) :
                       LET inner == Lines(fsys.files[b])[j]
                           c == ReadToString(fsys, cfg.cwd,
                                             IncludePath(Parent(b), inner))
                       IN /\ c.ok
                          /\ Contains(fsys.files[Output(call)], inner \o <<NL>>)
                          /\ ~Contains(fsys.files[Output(call)], c.content)

(* C3  Binary passthrough: the Expander copies a file with an undecodable  *)
(* line byte for byte to the output path and succeeds with an empty include*)
(* list; after the Initial Sync Pass the mirrored output of every such     *)
(* source file is identical to the source.                                 *)
C3_BinaryPassthrough ==
    /\ last.op = "sync" =>
          \A call \in { last.calls[k] : k \in 1..Len(last.calls) } :
              (IsFile(fsys, Input(call)) /\ Undecodable(fsys.files[Input(call)]))
              => /\ call.ok
                 /\ call.includes = <<>>
                 /\ IsFile(fsys, Output(call))
                 /\ fsys.files[Output(call)] = fsys.files[Input(call)]
    /\ last.op = "syncend" =>
          \A c \in DOMAIN fsys.files :
              (IsSource(fsys, c) /\ Undecodable(fsys.files[c]))
              => /\ IsFile(fsys, Mirror(c))
                 /\ fsys.files[Mirror(c)] = fsys.files[c]

----------------------------------------------------------------------------
\* the directive lines of the call's input whose target cannot be read as text
FailedDirectives(call) ==
    { i \in DirectiveLines(fsys, Input(call)) :
        ~Target(call, Lines(fsys.files[Input(call)])[i]).ok }

\* the Expander's part: the directive line stays, the call succeeds and the
\* resolved path is in the returned list
FailedIncludeKept(call) ==
    \A i \in FailedDirectives(call) :
        LET line == Lines(fsys.files[Input(call)])[i] IN
        /\ call.ok
        /\ IsFile(fsys, Output(call))
        /\ Contains(fsys.files[Output(call)], line \o <<NL>>)
        /\ \E n \in 1..Len(call.includes) :
              call.includes[n] = normalize_path(IncludePath(Parent(call.path), line))

\* the graph holds an edge from the returned include path (relative to the
\* source root when it lies under it) to the file the call expanded
EdgeFor(call, included) ==
    \E e \in included_files :
        /\ e[1] = StripOrSelf(included, abs_src)
        /\ \/ e[2] = StripOrSelf(call.path, abs_src)
           \/ Join(cfg.src, e[2]) = call.path

\* the returned include paths whose file cannot be read as text
FailedIncludes(call) ==
    { n \in 1..Len(call.includes) :
        ~ReadToString(fsys, cfg.cwd, call.includes[n]).ok }

\* the call is the dispatcher's expansion of the changed file itself
OwnCall(call) == last.op = "dispatch" /\ call.path = call.changed

----------------------------------------------------------------------------
(* C5  Verbosity non-interference: from any state, the step the program    *)
(* takes with the verbose flag set and the step it takes without it leave  *)
(* the same files, the same Dependency Graph, the same Expander results    *)
(* and the same liveness.                                                  *)
C5_VerbosityNonInterference ==
    /\ phase = "sync" =>
          \A file \in todo :
              LET out_path == Join(cfg.target, StripPrefix(file, cfg.src))
              IN process_file(fsys, cfg.cwd, file, out_path, TRUE)
                 = process_file(fsys, cfg.cwd, file, out_path, FALSE)
    /\ phase = "watch" =>
          \A ev \in Events :
              HandleEvent(Before, ev, TRUE) = HandleEvent(Before, ev, FALSE)

----------------------------------------------------------------------------
\* every path of a create/modify event lies under the target root
UnderTarget(ev) ==
    /\ ev.kind = "modify"
    /\ ev.paths # <<>>
    /\ \A i \in 1..Len(ev.paths) : StartsWith(normalize_path(ev.paths[i]), abs_target)

(* C6  Self-loop prevention: handling a create/modify event whose paths    *)
(* lie under the target root calls the Expander on nothing, writes and     *)
(* deletes nothing and leaves the Dependency Graph as it was.              *)
C6_SelfLoopPrevention ==
    [][ ( /\ phase = "watch"
          /\ queue # <<>>
          /\ UnderTarget(Head(queue))
          /\ last'.op = "dispatch" )
        => /\ fsys' = fsys
           /\ included_files' = included_files
           /\ last'.calls = <<>>
           /\ last'.touched = {}
           /\ phase' = "watch" ]_vars

\* such an event was handled while a file exists at its path
C6_Witness ==
    /\ Handled("modify")
    /\ UnderTarget(last.ev)
    /\ \E i \in 1..Len(last.ev.paths) : IsFile(fsys, normalize_path(last.ev.paths[i]))

----------------------------------------------------------------------------
(* C7  Failure isolation: no event, whatever its kind and paths, ends the  *)
(* dispatcher.                                                             *)
C7_FailureIsolation == phase # "panicked"

----------------------------------------------------------------------------
(* C8  One-hop propagation: while one changed path A of a create/modify    *)
(* event is handled, the Expander runs only on A and on the files the      *)
(* Dependency Graph records as direct dependents of A.                     *)
C8_OneHop ==
    last.op = "dispatch" =>
        \A k \in 1..Len(last.calls) :
            LET call == last.calls[k] IN
            \/ call.path = call.changed
            \/ \E e \in included_files :
                  /\ e[1] = StripOrSelf(call.changed, abs_src)
                  /\ call.path = Join(cfg.src, e[2])

\* B, a dependent of the changed file A, was re-expanded, and a recorded
\* dependent C of B was not
C8_Witness ==
    /\ Handled("modify")
    /\ \E k \in 1..Len(last.calls) :
          LET call == last.calls[k] IN
          /\ call.path # call.changed
          /\ call.ok
          /\ \E e \in included_files :
                /\ e[1] = StripOrSelf(Input(call), abs_src)
                /\ \A j \in 1..Len(last.calls) :
                      last.calls[j].path # Join(cfg.src, e[2])

----------------------------------------------------------------------------
(* C9  The source tree is never mutated: every file a step writes or       *)
(* deletes, and the output path of every Expander call, lies under the     *)
(* target root.                                                            *)
C9_SourceNeverMutated ==
    /\ \A c \in last.touched : StartsWith(c, abs_target)
    /\ \A k \in 1..Len(last.calls) : StartsWith(Output(last.calls[k]), abs_target)

----------------------------------------------------------------------------
\* the files the first run left under the target root are still as it left them
SameOutputs ==
    \A c \in DOMAIN first_run.files :
        StartsWith(c, abs_target)
        => IsFile(fsys, c) /\ fsys.files[c] = first_run.files[c]

\* a pass over the tree as it is reads a file under the target root, as an
\* enumerated input or as the target of a directive
ReadsOutputs ==
    \E file \in list_of_paths(fsys, cfg.cwd, cfg.src, cfg.target) :
        \/ StartsWith(OutCanon(cfg.cwd, file), abs_target)
        \/ \E i \in DirectiveLines(fsys, OutCanon(cfg.cwd, file)) :
              StartsWith(
                  OutCanon(cfg.cwd,
                           IncludePath(Parent(file),
                                       Lines(fsys.files[OutCanon(cfg.cwd, file)])[i])),
                  abs_target)

----------------------------------------------------------------------------
\* a directive line as the specification has it: what follows the leading
\* whitespace starts with the prefix
StatedDirective(line) == IsDirective(TrimStart(line))

\* the path such a line names: what is left of the line without that one
\* prefix, trimmed, relative to the directory of the containing file
StatedPath(call, line) == Join(Parent(call.path), PathOf(Trim(Tail(TrimStart(line)))))

\* the text a line becomes when directives are recognised that way
StatedLine(call, line) ==
    IF StatedDirective(line) /\ ReadToString(fsys, cfg.cwd, StatedPath(call, line)).ok
    THEN ReadToString(fsys, cfg.cwd, StatedPath(call, line)).content
    ELSE line

RECURSIVE StatedPaths(_, _)
StatedPaths(call, ls) ==
    IF ls = <<>> THEN <<>>
    ELSE IF StatedDirective(Head(ls))
    THEN <<normalize_path(StatedPath(call, Head(ls)))>> \o StatedPaths(call, Tail(ls))
    ELSE StatedPaths(call, Tail(ls))

(* C11  Directive recognition: a line is a directive exactly when, without *)
(* its leading whitespace, it starts with the prefix; its include path is  *)
(* the rest of the line after that one prefix, trimmed, relative to the    *)
(* directory of the containing file; every other line is copied unchanged. *)
C11_DirectiveRecognition ==
    \A call \in { last.calls[k] : k \in 1..Len(last.calls) } :
        (TextCall(call) /\ call.ok)
        => LET ls == Lines(fsys.files[Input(call)])
           IN /\ IsFile(fsys, Output(call))
              /\ fsys.files[Output(call)] =
                    Flatten([i \in 1..Len(ls) |-> StatedLine(call, ls[i]) \o <<NL>>])
              /\ call.includes = StatedPaths(call, ls)

----------------------------------------------------------------------------
\* the source files the paths of an event name
EventFiles(ev) ==
    { p \in { normalize_path(ev.paths[i]) : i \in 1..Len(ev.paths) } :
        StartsWith(p, abs_src) }

(* C12  Remove event: handling a remove event leaves no regular file at    *)
(* the mirrored path of any of its paths, calls the Expander on nothing,   *)
(* leaves the Dependency Graph as it was and every other file unchanged.   *)
C12_RemoveEvent ==
    [][ ( /\ phase = "watch"
          /\ queue # <<>>
          /\ Head(queue).kind = "remove"
          /\ last'.op = "dispatch" )
        => /\ \A p \in EventFiles(Head(queue)) : ~IsFile(fsys', Mirror(p))
           /\ included_files' = included_files
           /\ last'.calls = <<>>
           /\ \A c \in DOMAIN fsys.files :
                 c \notin { Mirror(p) : p \in EventFiles(Head(queue)) }
                 => IsFile(fsys', c) /\ fsys'.files[c] = fsys.files[c] ]_vars

----------------------------------------------------------------------------
\* the edge of the includer f and the included file g, both canonical, in
\* the form the dispatcher looks a changed path up: relative to the source
\* root when under it
CanonicalEdge(f, g) == <<StripOrSelf(g, abs_src), StripOrSelf(f, abs_src)>>

(* C13  Key discipline: every edge of the Dependency Graph is the edge of  *)
(* an expanded file and a file it names, with both paths relative to the   *)
(* canonical source root, so that one pair of files has one edge whoever   *)
(* recorded it.                                                            *)
C13_KeyDiscipline ==
    \A e \in included_files :
        \E x \in expanded : StartsWith(x[1], abs_src) /\ e = CanonicalEdge(x[1], x[2])

----------------------------------------------------------------------------
\* the dispatcher reaches the n-th returned include of its expansion of the
\* changed file and finds it under the source root: without the verbose
\* flag it does not get past an include that lies elsewhere
Recorded(call, n) ==
    /\ OwnCall(call)
    /\ StartsWith(call.includes[n], abs_src)
    /\ verbose \/ \A j \in 1..(n - 1) : StartsWith(call.includes[j], abs_src)

(* C14  Edges recorded after an expansion, as amended: after a successful  *)
(* expansion the graph holds an edge from each returned include path to    *)
(* the expanded file when the Initial Sync Pass made the call, and when    *)
(* the dispatcher made it on the changed file for each returned path under *)
(* the source root that it reaches; what the re-expansion of a dependent   *)
(* returns is not recorded.                                                *)
C14_EdgesRecorded ==
    \A call \in { last.calls[k] : k \in 1..Len(last.calls) } :
        call.ok
        => \A n \in 1..Len(call.includes) :
              (last.op = "sync" \/ Recorded(call, n))
              => EdgeFor(call, call.includes[n])

\* the dispatcher expanded a changed file with a directive, recorded its
\* edge, and re-expanded a dependent of it in the same step
C14_Witness ==
    /\ Handled("modify")
    /\ \E call \in { last.calls[k] : k \in 1..Len(last.calls) } :
          /\ OwnCall(call) /\ call.ok
          /\ call.includes # <<>>
          /\ \A n \in 1..Len(call.includes) :
                Recorded(call, n) /\ EdgeFor(call, call.includes[n])
          /\ \E dep \in { last.calls[k] : k \in 1..Len(last.calls) } :
                dep.changed = call.changed /\ dep.path # dep.changed /\ dep.ok

(* C14 as stated: after every successful Expander call, by the Initial     *)
(* Sync Pass or by the dispatcher on a changed file or on a dependent, the *)
(* graph holds an edge from each returned include path to the expanded     *)
(* file.                                                                   *)
C14_EdgesRecordedAsStated ==
    \A call \in { last.calls[k] : k \in 1..Len(last.calls) } :
        call.ok
        => \A n \in 1..Len(call.includes) : EdgeFor(call, call.includes[n])

----------------------------------------------------------------------------
\* a path of a create/modify event that is neither under the target root
\* nor under the canonical source root
Unresolvable(p) == ~StartsWith(p, abs_target) /\ ~StartsWith(p, abs_src)

(* C15  Unresolvable event path skipped: a create/modify event path that   *)
(* cannot be made relative to the canonical source root causes no          *)
(* Expander call, no write and no new edge; the paths after it in the      *)
(* event are handled and the dispatcher goes on to the later events.       *)
C15_UnresolvableSkipped ==
    [][ ( /\ phase = "watch"
          /\ queue # <<>>
          /\ Head(queue).kind = "modify"
          /\ last'.op = "dispatch" )
        => LET paths == [i \in 1..Len(Head(queue).paths) |->
                            normalize_path(Head(queue).paths[i])]
               calls == { last'.calls[k] : k \in 1..Len(last'.calls) }
           IN \A i \in 1..Len(paths) :
                 Unresolvable(paths[i])
                 => /\ \A call \in calls : call.changed # paths[i]
                    /\ \A c \in last'.touched : \E call \in calls : Output(call) = c
                    /\ \A e \in included_files' \ included_files :
                          \E call \in calls : e[2] = StripOrSelf(call.changed, abs_src)
                    /\ \A j \in (i + 1)..Len(paths) :
                          StartsWith(paths[j], abs_src)
                          => \E call \in calls : call.changed = paths[j]
                    /\ phase' = "watch" ]_vars

----------------------------------------------------------------------------
(* C16  Initial Sync excludes the target tree: however the roots are       *)
(* named, the Initial Sync Pass never calls the Expander on a file under   *)
(* the target root.                                                        *)
C16_SyncExcludesTarget ==
    last.op = "sync"
    => \A k \in 1..Len(last.calls) : ~StartsWith(Input(last.calls[k]), abs_target)

----------------------------------------------------------------------------
(* The watch session with the notifications of the files actually changed: *)
(* the user's edits and removals, and what the dispatcher itself writes or *)
(* deletes under the watched root.                                         *)

\* the notification for a change to the file c: its path is spelled from the
\* watched root, its kind tells whether the file is still there
EventFor(fs, c) ==
    [kind |-> IF c \in DOMAIN fs.files THEN "modify" ELSE "remove",
     paths |-> <<WatchRoot \o StripPrefix(c, SrcRoot)>>]

\* the notifications for a set of changed files, in any order
RECURSIVE EventsFor(_, _)
EventsFor(fs, changed) ==
    IF changed = {} THEN {<<>>}
    ELSE UNION { { <<EventFor(fs, c)>> \o rest : rest \in EventsFor(fs, changed \ {c}) } :
                 c \in changed }

\* the user rewrites a source file and the notification source reports it
UserEdit ==
    /\ phase = "watch"
    /\ events < MaxEvents
    /\ \E e \in Edits :
          /\ SrcRoot \o e.rel \in DOMAIN fsys.files
          /\ fsys' = WriteFile(fsys, SrcRoot \o e.rel, e.content)
          /\ queue' = Append(queue, EventFor(fsys', SrcRoot \o e.rel))
    /\ events' = events + 1
    /\ last' = Idle("edit")
    /\ UNCHANGED <<cfg, verbose, watch, phase, abs_src, abs_target, todo,
                   included_files, runs, first_run, edits, expanded>>

\* the user deletes a source file and the notification source reports it
UserRemove ==
    /\ phase = "watch"
    /\ events < MaxEvents
    /\ \E c \in DOMAIN fsys.files :
          /\ IsSource(fsys, c)
          /\ fsys' = RemoveFile(fsys, c)
          /\ queue' = Append(queue, EventFor(fsys', c))
    /\ events' = events + 1
    /\ last' = Idle("remove")
    /\ UNCHANGED <<cfg, verbose, watch, phase, abs_src, abs_target, todo,
                   included_files, runs, first_run, edits, expanded>>

\* the dispatcher handles the next event, and the notification source
\* reports every file under the watched root that it wrote or deleted
WatchedDispatch ==
    /\ phase = "watch"
    /\ queue # <<>>
    /\ \E st \in HandleEvent(Before, Head(queue), verbose) :
          /\ fsys' = st.fsys
          /\ included_files' = st.graph
          /\ phase' = IF st.alive THEN "watch" ELSE "panicked"
          /\ last' = [op |-> "dispatch", ev |-> Head(queue), calls |-> st.calls,
                      touched |-> st.touched]
          /\ expanded' = expanded \cup Expanded(st.calls)
          /\ \E own \in EventsFor(st.fsys, { c \in st.touched : StartsWith(c, SrcRoot) }) :
                queue' = Tail(queue) \o own
    /\ UNCHANGED <<cfg, verbose, watch, abs_src, abs_target, todo, runs,
                   first_run, events, edits>>

\* the user runs the program again on the same roots, watching or not
Restart ==
    /\ phase = "done"
    /\ runs < MaxRuns
    /\ runs' = runs + 1
    /\ watch' \in BOOLEAN
    /\ phase' = "start"
    /\ abs_src' = None
    /\ abs_target' = None
    /\ included_files' = {}
    /\ last' = Idle("rerun")
    /\ expanded' = {}
    /\ UNCHANGED <<cfg, verbose, fsys, todo, queue, first_run, events, edits>>

\* the target root lies inside the watched source root
InitWatched == Init /\ StartsWith(OutCanon(cfg.cwd, cfg.target), SrcRoot)

NextWatched ==
    \/ Startup
    \/ SyncFile
    \/ SyncEnd
    \/ Restart
    \/ UserEdit
    \/ UserRemove
    \/ WatchedDispatch

\* the program takes its next step whenever it has one
SpecWatched ==
    /\ InitWatched
    /\ [][NextWatched]_vars
    /\ WF_vars(Startup) /\ WF_vars(SyncFile) /\ WF_vars(SyncEnd)
    /\ WF_vars(WatchedDispatch)

\* every path of the event lies under the target root: in a watch session
\* of SpecWatched these are the events the dispatcher caused itself
OwnEvent(ev) ==
    /\ ev.paths # <<>>
    /\ \A i \in 1..Len(ev.paths) : StartsWith(normalize_path(ev.paths[i]), abs_target)

(* C17  No feedback loop: with the target root inside the watched source   *)
(* root and every write or delete of the dispatcher reported back, an      *)
(* event the dispatcher caused itself causes no Expander call, no write    *)
(* and no delete, so that the dispatcher comes to rest once the user's     *)
(* changes stop.                                                           *)
C17_NoFeedbackLoop ==
    [][ ( /\ phase = "watch"
          /\ queue # <<>>
          /\ OwnEvent(Head(queue))
          /\ last'.op = "dispatch" )
        => last'.calls = <<>> /\ last'.touched = {} ]_vars

----------------------------------------------------------------------------
(* C18  Monotonic graph: every step of the Initial Sync Pass and of the    *)
(* Watch Dispatcher, whatever the event and whether the expansion          *)
(* succeeds, leaves every edge of the Dependency Graph in place.           *)
C18_MonotonicGraph ==
    [][ last'.op \in {"sync", "syncend", "dispatch"}
        => included_files \subseteq included_files' ]_vars

\* the dispatcher has just expanded a file that no longer names a file it
\* is recorded to include, or handled the removal of an including file, and
\* the edge is still there
C18_Witness ==
    /\ last.op = "dispatch" /\ phase = "watch"
    /\ \E e \in included_files :
          LET f == abs_src \o e[2]
              g == abs_src \o e[1]
          IN \/ /\ last.ev.kind = "modify"
                /\ \E k \in 1..Len(last.calls) : Input(last.calls[k]) = f
                /\ IsFile(fsys, f)
                /\ ~Includes(fsys, f, g)
             \/ /\ last.ev.kind = "remove"
                /\ f \in EventFiles(last.ev)
                /\ ~IsFile(fsys, Mirror(f))
                /\ f \in last.touched \/ Mirror(f) \in last.touched

----------------------------------------------------------------------------
\* the Expander calls of the step being taken
NewCalls == { last'.calls[k] : k \in 1..Len(last'.calls) }

\* the input of the call is not there to be opened when the step starts
OpenFails(call) == ~Exists(fsys, Resolve(fsys, cfg.cwd, call.path))

(* C19  Open failure: an Expander call whose input cannot be opened fails  *)
(* with an empty include list and leaves the file system as it was, the    *)
(* file at its output path included; when the dispatcher made the call on  *)
(* the changed file it records no edge for that file and still calls the   *)
(* Expander on every dependent the graph records for it.                   *)
C19_OpenFailure ==
    [][ last'.op \in {"sync", "dispatch"}
        => \A call \in NewCalls :
              OpenFails(call)
              => /\ ~call.ok /\ call.includes = <<>>
                 /\ NewCalls = {call} => fsys' = fsys
                 /\ (\A d \in NewCalls : d # call => Output(d) # Output(call))
                    => /\ Output(call) \notin last'.touched
                       /\ IsFile(fsys, Output(call))
                          => /\ IsFile(fsys', Output(call))
                             /\ fsys'.files[Output(call)] = fsys.files[Output(call)]
                 /\ (last'.op = "dispatch" /\ call.path = call.changed)
                    => /\ \A e \in included_files' \ included_files :
                             e[2] # StripOrSelf(call.changed, abs_src)
                       /\ \A e \in included_files :
                             e[1] = StripOrSelf(call.changed, abs_src)
                             => \E d \in NewCalls :
                                   /\ d.changed = call.changed
                                   /\ d.path = Join(cfg.src, e[2]) ]_vars

\* the dispatcher could not open a changed file whose output the Initial
\* Sync Pass wrote: the output is as it was, and a dependent was re-expanded
C19_Witness ==
    /\ Handled("modify")
    /\ \E k \in 1..Len(last.calls) :
          LET call == last.calls[k] IN
          /\ call.path = call.changed
          /\ ~call.ok /\ call.kind = "NotFound"
          /\ ~Exists(fsys, Input(call))
          /\ IsFile(fsys, Output(call))
          /\ fsys.files[Output(call)] = Greeting
          /\ \E j \in 1..Len(last.calls) :
                /\ last.calls[j].changed = call.changed
                /\ last.calls[j].path # call.changed
                /\ last.calls[j].ok

----------------------------------------------------------------------------
\* the number of line terminators in a text
RECURSIVE Terminators(_)
Terminators(text) ==
    IF text = <<>> THEN 0
    ELSE (IF Head(text) = NL THEN 1 ELSE 0) + Terminators(Tail(text))

RECURSIVE Sum(_)
Sum(ns) == IF ns = <<>> THEN 0 ELSE Head(ns) + Sum(Tail(ns))

\* the output of the call has one line terminator more for each line of the
\* input than the texts emitted for the lines hold, and as many other tokens
OneTerminatorPerLine(call) ==
    LET ls == Lines(fsys.files[Input(call)])
        out == fsys.files[Output(call)]
    IN /\ Terminators(out) =
             Sum([i \in 1..Len(ls) |-> Terminators(Substituted(call, ls[i])) + 1])
       /\ Len(out) = Sum([i \in 1..Len(ls) |-> Len(Substituted(call, ls[i])) + 1])

(* C20  Newline termination, as amended: a text expansion appends exactly  *)
(* one line terminator after each emitted line, whether or not the source  *)
(* line or the spliced content ended with one, and every output that is    *)
(* not empty ends with a line terminator.                                  *)
C20_NewlineTermination ==
    \A call \in { last.calls[k] : k \in 1..Len(last.calls) } :
        (TextCall(call) /\ call.ok)
        => /\ IsFile(fsys, Output(call))
           /\ OneTerminatorPerLine(call)
           /\ fsys.files[Output(call)] # <<>>
              => Last(fsys.files[Output(call)]) = NL

\* an input whose last line is unterminated, with a directive whose spliced
\* content ends with a line terminator, was expanded
C20_Witness ==
    \E call \in { last.calls[k] : k \in 1..Len(last.calls) } :
        /\ TextCall(call) /\ call.ok
        /\ Last(fsys.files[Input(call)]) # NL
        /\ \E i \in DirectiveLines(fsys, Input(call)) :
              LET t == Target(call, Lines(fsys.files[Input(call)])[i])
              IN t.ok /\ t.content # <<>> /\ Last(t.content) = NL
        /\ OneTerminatorPerLine(call)
        /\ Last(fsys.files[Output(call)]) = NL

(* C20 as stated: every output of a text expansion ends with a line        *)
(* terminator, and exactly one is appended after each emitted line.        *)
C20_NewlineTerminationAsStated ==
    \A call \in { last.calls[k] : k \in 1..Len(last.calls) } :
        (TextCall(call) /\ call.ok)
        => /\ IsFile(fsys, Output(call))
           /\ OneTerminatorPerLine(call)
           /\ fsys.files[Output(call)] # <<>>
           /\ Last(fsys.files[Output(call)]) = NL

----------------------------------------------------------------------------
(* The watch session with a backlog: the notification source's threads     *)
(* send while the dispatcher is busy, so events wait in the channel.       *)

\* the number of notifications that wait in the channel at once
MaxBacklog == 2

\* a thread of the notification source sends an event: whichever thread
\* sends next, its event goes to the back of the channel
Send ==
    /\ phase = "watch"
    /\ events < MaxEvents
    /\ Len(queue) < MaxBacklog
    /\ \E ev \in Events : queue' = Append(queue, ev)
    /\ events' = events + 1
    /\ last' = Idle("notify")
    /\ UNCHANGED <<cfg, verbose, watch, fsys, phase, abs_src, abs_target, todo,
                   included_files, runs, first_run, edits, expanded>>

InitOrdered == Init /\ watch

NextOrdered ==
    \/ Startup
    \/ SyncFile
    \/ SyncEnd
    \/ Send
    \/ Dispatch

SpecOrdered == InitOrdered /\ [][NextOrdered]_vars

\* the dispatcher takes the event at the front of the channel, and that one
\* only; a send adds one event at the back; nothing else touches the channel
FifoStep ==
    /\ last'.op = "dispatch"
       => queue # <<>> /\ last'.ev = Head(queue) /\ queue' = Tail(queue)
    /\ last'.op = "notify"
       => Len(queue') = Len(queue) + 1 /\ SubSeq(queue', 1, Len(queue)) = queue
    /\ last'.op \notin {"dispatch", "notify"} => queue' = queue

\* while the tree is watched, files and graph change in dispatch steps only,
\* each of them the handling of one event
SequentialStep ==
    (phase = "watch" /\ last'.op # "dispatch")
    => fsys' = fsys /\ included_files' = included_files

(* C21  Event ordering: the dispatcher handles the events in the order     *)
(* they were delivered, one at a time: each dispatch handles the event at  *)
(* the front of the channel and removes that one only, sends add at the    *)
(* back whatever their interleaving, files and graph change only in the    *)
(* handling of one event, and no delivered event is left unhandled when    *)
(* the dispatcher stops.                                                   *)
C21_EventOrdering ==
    [][ /\ FifoStep
        /\ SequentialStep
        /\ phase' = "panicked" => queue' = <<>> ]_vars

----------------------------------------------------------------------------
(* C22  Startup target creation: when the source root is a directory and   *)
(* nothing stands in the way of creating the target root, startup leaves   *)
(* the target root a directory and goes on to the Initial Sync Pass.       *)
C22_StartupTargetCreation ==
    ( /\ last.op = "startup"
      /\ IsDir(fsys, Resolve(fsys, cfg.cwd, cfg.src))
      /\ CanCreateDirs(fsys, OutCanon(cfg.cwd, cfg.target)) )
    => /\ phase = "sync"
       /\ IsDir(fsys, OutCanon(cfg.cwd, cfg.target))

----------------------------------------------------------------------------
(* Source trees whose includes form cycles                                 *)

\* a file that includes Main's file m, which includes it back
Loop == <<PFX, SP, "m", NL>>
\* a file that includes itself
Self == <<PFX, SP, "s", NL>>

CyclicTrees ==
    { { File(<<"g">>, Loop), File(<<"m">>, Main), File(<<"s">>, Self) } }

InitCyclic ==
    /\ cfg \in Configs
    /\ verbose \in BOOLEAN
    /\ watch \in BOOLEAN
    /\ \E tree \in CyclicTrees, target_exists \in BOOLEAN :
          fsys = [files |-> TreeFiles(tree),
                  dirs |-> TreeDirs(tree) \cup
                           (IF target_exists
                            THEN Prefixes(OutCanon(cfg.cwd, cfg.target)) ELSE {})]
    /\ phase = "start"
    /\ abs_src = None
    /\ abs_target = None
    /\ todo = {}
    /\ included_files = {}
    /\ queue = <<>>
    /\ last = Idle("init")
    /\ runs = 1
    /\ first_run = [taken |-> FALSE, files |-> fsys.files]
    /\ events = 0
    /\ edits = 0
    /\ expanded = {}

SpecCyclic == InitCyclic /\ [][Next]_vars

\* the positions, among the calls of the last step, of the calls made for
\* the changed path p
CallsFor(p) == { k \in 1..Len(last.calls) : last.calls[k].changed = p }

\* the calls made for the changed path p are at most one on p itself, made
\* first, and after it no more calls on a path than the graph records
\* dependents of p that are expanded at that path
WorkBounded(p) ==
    LET deps == Dependents(included_files, StripOrSelf(p, abs_src))
        ks == CallsFor(p)
    IN \E own \in SUBSET ks :
          /\ Cardinality(own) <= 1
          /\ \A k \in own : /\ last.calls[k].path = p
                            /\ \A j \in ks : k <= j
          /\ \A k \in ks \ own :
                LET same == { j \in ks \ own : last.calls[j].path = last.calls[k].path }
                    from == { d \in deps : Join(cfg.src, d) = last.calls[k].path }
                IN Cardinality(same) <= Cardinality(from)

(* C23  Bounded work per changed path: the handling of a create or modify  *)
(* event calls the Expander, for each of its paths, at most once on the    *)
(* changed file and then once on each dependent the Dependency Graph       *)
(* records for it, and on nothing else, cycles in the graph or not.  (The  *)
(* graph is the one the event leaves: re-expanding dependents records      *)
(* nothing, so it is the graph of the lookup for the last path.)           *)
C23_BoundedWork ==
    (last.op = "dispatch" /\ last.ev.kind = "modify")
    => /\ \A p \in { normalize_path(last.ev.paths[i]) : i \in 1..Len(last.ev.paths) } :
             WorkBounded(p)
       /\ \A k \in 1..Len(last.calls) :
             \E i \in 1..Len(last.ev.paths) :
                last.calls[k].changed = normalize_path(last.ev.paths[i])

\* the dispatcher handled a change to g while the graph records that m
\* includes g and g includes m: it expanded g, then m, and stopped
C23_Witness ==
    /\ Handled("modify")
    /\ {<<<<"g">>, <<"m">>>>, <<<<"m">>, <<"g">>>>} \subseteq included_files
    /\ Len(last.calls) = 2
    /\ Input(last.calls[1]) = abs_src \o <<"g">>
    /\ Input(last.calls[2]) = abs_src \o <<"m">>
    /\ last.calls[1].ok /\ last.calls[2].ok
    /\ last.calls[1].changed = last.calls[2].changed

============================================================================
